---------------------------- MODULE Spec2Model ----------------------------
(***************************************************************************)
(* Meridian: proposal lifecycle, sequencing and payload encoding of the    *)
(* on-chain program (initialize / propose_transaction / execute_proposal). *)
(*                                                                         *)
(* Every instruction is one action.  An instruction runs inside a host     *)
(* transaction: the accounts are loaded and validated in the order of the  *)
(* fields of its Accounts struct, the handler works on the loaded copies,  *)
(* and the copies are written back only when the handler returns Ok; an    *)
(* Err (or a failed cross-program call) discards every change of the       *)
(* instruction.                                                            *)
(***************************************************************************)
EXTENDS Integers, Sequences, FiniteSets, TLC

\* ------------------------------------------------------------------ bounds
MaxIndex == 1
MaxTime == 1

\* ------------------------------------------------------- program constants
MAX_CALL_DATA_SIZE == 10000
PayloadVersion == 1
MeridianMessageType_Transaction == 1
PayloadNonce == 0

\* ------------------------------------------------------------ value spaces
\* the wallet and multisig addresses tried
Pubkeys == {1, 2}
TxIndices == 0..MaxIndex
Times == 0..MaxTime
\* a proposal address is derived from (multisig, transaction_index)
ProposalKeys == Pubkeys \X TxIndices

\* Option<T>: None, Some(v)
None == <<>>
Some(v) == <<v>>

Zeros(n) == [i \in 1..n |-> 0]

\* the (target_chain, target_address, call_data, gas_limit) arguments tried
IntentA ==
    [target_chain |-> 2,
     target_address |-> [i \in 1..32 |-> IF i = 32 THEN 1 ELSE 0],
     call_data |-> <<170, 187>>,
     gas_limit |-> 100000]

IntentB ==
    [target_chain |-> 258,
     target_address |-> [i \in 1..32 |-> IF i = 1 THEN 255 ELSE 0],
     call_data |-> <<>>,
     gas_limit |-> 70000]

IntentTooLarge ==
    [target_chain |-> 2,
     target_address |-> Zeros(32),
     call_data |-> Zeros(MAX_CALL_DATA_SIZE + 1),
     gas_limit |-> 1]

\* call_data of exactly the greatest size accepted
IntentMax ==
    [target_chain |-> 2,
     target_address |-> Zeros(32),
     call_data |-> Zeros(MAX_CALL_DATA_SIZE),
     gas_limit |-> 1]

\* the arguments tried at the size limit
BoundaryIntents == {IntentMax, IntentTooLarge}

\* the transaction index tried at the size limit
BoundaryIndices == {0}

\* the arguments tried with transaction index idx: one storable intent
\* (IntentA at even indices, IntentB at odd ones) and the oversized one
IntentInputs(idx) ==
    {IF idx % 2 = 0 THEN IntentA ELSE IntentB, IntentTooLarge}

\* the program-derived address of seeds [b"emitter"]
EmitterPda == "emitter_pda"

\* the Wormhole accounts handed to initialize (any accounts are accepted)
RoutingInputs ==
    { [wormhole_program |-> "core", wormhole_bridge |-> "bridge",
       wormhole_fee_collector |-> "fee"] }

\* the Wormhole accounts and emitter handed to execute_proposal: those of
\* RoutingInputs, and the same with one account replaced
ExecuteAccountInputs ==
    { [wormhole_program |-> "core", wormhole_bridge |-> "bridge",
       wormhole_fee_collector |-> "fee", emitter |-> EmitterPda],
      [wormhole_program |-> "other", wormhole_bridge |-> "bridge",
       wormhole_fee_collector |-> "fee", emitter |-> EmitterPda],
      [wormhole_program |-> "core", wormhole_bridge |-> "other",
       wormhole_fee_collector |-> "fee", emitter |-> EmitterPda],
      [wormhole_program |-> "core", wormhole_bridge |-> "bridge",
       wormhole_fee_collector |-> "other", emitter |-> EmitterPda],
      [wormhole_program |-> "core", wormhole_bridge |-> "bridge",
       wormhole_fee_collector |-> "fee", emitter |-> "other"] }

\* the accounts of ExecuteAccountInputs that some initialize was handed
GoodAccountInputs ==
    { a \in ExecuteAccountInputs :
        /\ a.emitter = EmitterPda
        /\ \E r \in RoutingInputs :
              /\ a.wormhole_program = r.wormhole_program
              /\ a.wormhole_bridge = r.wormhole_bridge
              /\ a.wormhole_fee_collector = r.wormhole_fee_collector }

\* the inputs of execute_proposal.  The answers of the Squads program and of
\* the bridge are varied only where the handler can run at all: a multisig
\* other than the one in the proposal's address, or an account no config
\* holds, is rejected while the accounts are validated.
ExecuteInputs ==
    { i \in [key : ProposalKeys, multisig : Pubkeys,
             accounts : ExecuteAccountInputs,
             squads_approved : BOOLEAN, post_ok : BOOLEAN] :
        /\ i.accounts \notin GoodAccountInputs => i.squads_approved /\ i.post_ok
        /\ i.multisig # i.key[1] =>
              /\ i.squads_approved /\ i.post_ok
              /\ i.accounts \in GoodAccountInputs }

\* the signer of initialize (it becomes config.authority)
InitializePayers == {1}

NoConfig == [initialized |-> FALSE]

\* the arguments create_transaction_payload is tried with
CodecInputs ==
    [proposal_key : {<<1, 0>>, <<2, 1>>},
     target_chain : {0, 258, 65535},
     target_address : {IntentA.target_address, IntentB.target_address},
     call_data : {<<>>, IntentA.call_data, [i \in 1..300 |-> i % 256]},
     gas_limit : {0, 100000, 2147483647},
     sequence : {1, 256, 2147483647},
     timestamp : Times \cup {1700000000}]

\* the transactions that may run execute_proposal at the same time
Txs == {1, 2}

\* a transaction that is not under way
Idle == [pc |-> "idle"]

VARIABLES
    config,     \* the MeridianConfig account, or NoConfig before it is created
    proposals,  \* the CrossChainProposal accounts, by address
    clock,      \* Clock::get().unix_timestamp
    last,       \* the last instruction: its inputs, its result and what it posted
    encoded,    \* a call of create_transaction_payload: its arguments, its result
    inflight    \* the execute_proposal transactions under way, by transaction

vars == <<config, proposals, clock, last, encoded, inflight>>

\* ------------------------------------------------------------ ProposalStatus
Pending == "Pending"
Executed == "Executed"
Failed == "Failed"
Cancelled == "Cancelled"
ProposalStatus == {Pending, Executed, Failed, Cancelled}

\* ----------------------------------------------------------------- encoding
\* write_uN::<LittleEndian>: the w low bytes of n, least significant first
RECURSIVE LittleEndian(_, _)
LittleEndian(n, w) ==
    IF w = 0 THEN <<>> ELSE <<n % 256>> \o LittleEndian(n \div 256, w - 1)

\* the 32 bytes of a proposal's address (one per (multisig, index))
ProposalKeyBytes(key) ==
    [i \in 1..32 |-> IF i = 1 THEN key[1] ELSE IF i = 2 THEN key[2] ELSE 0]

\* mutant: the length of call_data is written as a u16
create_transaction_payload_ShortLen(proposal_key, target_chain, target_address, call_data, gas_limit, sequence, timestamp) ==
    <<PayloadVersion>>
    \o <<MeridianMessageType_Transaction>>
    \o LittleEndian(sequence, 8)
    \o LittleEndian(timestamp, 8)
    \o LittleEndian(PayloadNonce, 4)
    \o proposal_key
    \o LittleEndian(target_chain, 2)
    \o target_address
    \o LittleEndian(gas_limit, 8)
    \o LittleEndian(Len(call_data), 2)
    \o call_data

\* utils.rs, create_transaction_payload: the bytes written, in order
create_transaction_payload(proposal_key, target_chain, target_address, call_data, gas_limit, sequence, timestamp) ==
    <<PayloadVersion>>
    \o <<MeridianMessageType_Transaction>>
    \o LittleEndian(sequence, 8)
    \o LittleEndian(timestamp, 8)
    \o LittleEndian(PayloadNonce, 4)
    \o proposal_key
    \o LittleEndian(target_chain, 2)
    \o target_address
    \o LittleEndian(gas_limit, 8)
    \o LittleEndian(Len(call_data), 4)
    \o call_data

\* one call of create_transaction_payload on the arguments drawn
Encode ==
    /\ encoded.input # None
    /\ encoded.payload = None
    /\ LET i == encoded.input[1] IN
       encoded' = [encoded EXCEPT !.payload =
                      Some(create_transaction_payload(
                               ProposalKeyBytes(i.proposal_key), i.target_chain,
                               i.target_address, i.call_data, i.gas_limit,
                               i.sequence, i.timestamp))]
    /\ UNCHANGED <<config, proposals, clock, last, inflight>>

\* mutant: the stub rejects
is_proposal_approved_Rejects(squads_program, multisig_account, proposal_account) == FALSE

\* the stub: the accounts it is handed are not read
is_proposal_approved(squads_program, multisig_account, proposal_account) == TRUE

\* mutant: the error of the cross-program call is dropped
post_wormhole_message_Ignored(payload, post_ok) == "Ok"

\* post_wormhole_message: the cross-program call to the bridge, which the
\* bridge accepts (post_ok) or fails
post_wormhole_message(payload, post_ok) ==
    IF post_ok THEN "Ok" ELSE "WormholeError"

\* --------------------------------------------------------------- initialize
\* the record of an instruction: payer, the signer of a propose that created
\* a proposal; multisig, the multisig account a propose named; key, the
\* proposal account created or loaded; squads_approved and post_ok, the
\* answers of the Squads program and of the bridge when the execute handler
\* ran; posted, the payloads handed to the bridge; accounts, the Wormhole
\* accounts and emitter the execute handler ran with
Call(op, payer, multisig, key, squads_approved, post_ok, result, posted, accounts) ==
    [op |-> op, payer |-> payer, multisig |-> multisig, key |-> key,
     squads_approved |-> squads_approved, post_ok |-> post_ok,
     result |-> result, posted |-> posted, accounts |-> accounts]

\* initialize.rs handler: the fields of the new config account
InitializeHandler(payer, multisig, routing) ==
    [initialized |-> TRUE,
     authority |-> payer,
     authorized_multisig |-> multisig,
     wormhole_program |-> routing.wormhole_program,
     wormhole_bridge |-> routing.wormhole_bridge,
     wormhole_fee_collector |-> routing.wormhole_fee_collector,
     emitter |-> EmitterPda,
     sequence |-> 0]

\* mutant: `init_if_needed`, an existing config account is written again
InitializeResult_IfNeeded == "Ok"

\* `init` on the config address: fails once the account exists
InitializeResult == IF config.initialized THEN "AlreadyInUse" ELSE "Ok"

Initialize(payer, multisig, routing) ==
    /\ config' = IF InitializeResult = "Ok"
                 THEN InitializeHandler(payer, multisig, routing)
                 ELSE config
    /\ last' = Call("initialize", None, None, None, TRUE, TRUE, InitializeResult, <<>>, None)
    /\ UNCHANGED <<proposals, clock, encoded, inflight>>

\* ------------------------------------------------------ propose_transaction
\* mutant: the limit itself is refused
CallDataTooLarge_OffByOne(call_data) == Len(call_data) >= MAX_CALL_DATA_SIZE

\* call_data.len() > MAX_CALL_DATA_SIZE
CallDataTooLarge(call_data) == Len(call_data) > MAX_CALL_DATA_SIZE

\* propose.rs handler, lines 54-71: Err, or the fields of the new proposal
ProposeHandler(multisig, idx, intent, now) ==
    IF CallDataTooLarge(intent.call_data)
    THEN [result |-> "CallDataTooLarge"]
    ELSE [result |-> "Ok",
          proposal |-> [multisig |-> multisig,
                        transaction_index |-> idx,
                        target_chain |-> intent.target_chain,
                        target_address |-> intent.target_address,
                        call_data |-> intent.call_data,
                        gas_limit |-> intent.gas_limit,
                        status |-> Pending,
                        wormhole_sequence |-> None,
                        created_at |-> now,
                        executed_at |-> None]]

\* mutant: the constraint on multisig is missing
ProposeMultisigConstraint_Missing(cfg, multisig) == TRUE

\* constraint = config.authorized_multisig == multisig.key()
ProposeMultisigConstraint(cfg, multisig) == cfg.authorized_multisig = multisig

\* mutant: `init_if_needed`, an existing proposal account is taken over
ProposalInitFails_IfNeeded(multisig, idx) == FALSE

\* `init` of the proposal account fails when the address is already in use
ProposalInitFails(multisig, idx) == <<multisig, idx>> \in DOMAIN proposals

\* ProposeTransaction accounts: config is loaded, the proposal address is
\* created (`init`), then the constraint on multisig is checked
ProposeAccounts(multisig, idx) ==
    IF ~config.initialized THEN "AccountNotInitialized"
    ELSE IF ProposalInitFails(multisig, idx) THEN "AlreadyInUse"
    ELSE IF ~ProposeMultisigConstraint(config, multisig) THEN "UnauthorizedMultisig"
    ELSE "Ok"

ProposeOutcome(multisig, idx, intent) ==
    IF ProposeAccounts(multisig, idx) # "Ok"
    THEN [result |-> ProposeAccounts(multisig, idx)]
    ELSE ProposeHandler(multisig, idx, intent, clock)

\* payer signs; multisig is an UncheckedAccount and need not sign
Propose(payer, multisig, idx, intent) ==
    LET out == ProposeOutcome(multisig, idx, intent) IN
    /\ proposals' = IF out.result = "Ok"
                    THEN [k \in DOMAIN proposals \cup {<<multisig, idx>>} |->
                            IF k = <<multisig, idx>> THEN out.proposal
                            ELSE proposals[k]]
                    ELSE proposals
    /\ last' = IF out.result = "Ok"
               THEN Call("propose", Some(payer), Some(multisig),
                         Some(<<multisig, idx>>), TRUE, TRUE, out.result, <<>>, None)
               ELSE Call("propose", None, Some(multisig), None, TRUE, TRUE,
                         out.result, <<>>, None)
    /\ UNCHANGED <<config, clock, encoded, inflight>>

\* --------------------------------------------------------- execute_proposal
\* mutant: the constraint on the proposal's status is missing
ProposalPendingConstraint_Missing(p) == TRUE

\* constraint = proposal.status == ProposalStatus::Pending
ProposalPendingConstraint(p) == p.status = Pending

\* mutant: the constraint on wormhole_program is missing
WormholeProgramConstraint_Missing(cfg, wormhole_program) == TRUE

\* constraint = config.wormhole_program == wormhole_program.key()
WormholeProgramConstraint(cfg, wormhole_program) ==
    cfg.wormhole_program = wormhole_program

\* ExecuteProposal accounts: config and proposal are loaded, then the
\* constraints are checked field by field
ExecuteAccounts(key, multisig, wormhole_program, wormhole_bridge, wormhole_fee_collector, emitter) ==
    IF ~config.initialized THEN "AccountNotInitialized"
    ELSE IF key \notin DOMAIN proposals THEN "AccountNotInitialized"
    ELSE IF ~ProposalPendingConstraint(proposals[key]) THEN "ProposalNotPending"
    ELSE IF config.authorized_multisig # multisig THEN "UnauthorizedMultisig"
    ELSE IF proposals[key].multisig # multisig THEN "ConstraintRaw"
    ELSE IF ~WormholeProgramConstraint(config, wormhole_program) THEN "InvalidWormholeProgram"
    ELSE IF config.wormhole_bridge # wormhole_bridge THEN "ConstraintRaw"
    ELSE IF config.wormhole_fee_collector # wormhole_fee_collector THEN "ConstraintRaw"
    ELSE IF emitter # EmitterPda THEN "ConstraintSeeds"
    ELSE IF config.emitter # emitter THEN "ConstraintRaw"
    ELSE "Ok"

\* mutant: the counter is not advanced
IncrementSequence_Forgotten(cfg) == cfg

\* mutant: the counter is advanced twice
IncrementSequence_Twice(cfg) == [cfg EXCEPT !.sequence = @ + 2]

\* config.sequence += 1
IncrementSequence(cfg) == [cfg EXCEPT !.sequence = @ + 1]

\* mutant: the wrong status is written
MarkExecuted_Failed(p, sequence, now) ==
    [p EXCEPT !.status = Failed,
              !.wormhole_sequence = Some(sequence),
              !.executed_at = Some(now)]

\* mutant: the sequence read before the increment is recorded
MarkExecuted_OldSequence(p, sequence, now) ==
    [p EXCEPT !.status = Executed,
              !.wormhole_sequence = Some(sequence - 1),
              !.executed_at = Some(now)]

\* mutant: the time of execution is not recorded
MarkExecuted_NoTimestamp(p, sequence, now) ==
    [p EXCEPT !.status = Executed,
              !.wormhole_sequence = Some(sequence)]

\* mutant: the time of creation is overwritten with the time of execution
MarkExecuted_Restamped(p, sequence, now) ==
    [p EXCEPT !.status = Executed,
              !.wormhole_sequence = Some(sequence),
              !.executed_at = Some(now),
              !.created_at = now]

\* lines 137-140: the proposal after the message was posted
MarkExecuted(p, sequence, now) ==
    [p EXCEPT !.status = Executed,
              !.wormhole_sequence = Some(sequence),
              !.executed_at = Some(now)]

\* execute.rs handler, lines 85-149, on the loaded copies cfg and p.
\* squads_approved: whether the Squads program holds the proposal of this
\* multisig and transaction index approved; post_ok: whether the bridge
\* accepts the message.
ExecuteHandler(cfg, p, key, squads_approved, post_ok, now) ==
    LET is_approved == is_proposal_approved(cfg.wormhole_program, p.multisig,
                                            squads_approved)
        cfg1 == IncrementSequence(cfg)
        payload == create_transaction_payload(ProposalKeyBytes(key),
                       p.target_chain, p.target_address, p.call_data,
                       p.gas_limit, cfg1.sequence, now)
        posting == post_wormhole_message(payload, post_ok)
    IN  IF ~is_approved
        THEN [result |-> "ProposalNotApproved", config |-> cfg, proposal |-> p,
              posted |-> <<>>]
        ELSE IF posting # "Ok"
        THEN [result |-> posting, config |-> cfg1, proposal |-> p,
              posted |-> <<>>]
        ELSE [result |-> "Ok", config |-> cfg1,
              proposal |-> MarkExecuted(p, cfg1.sequence, now),
              posted |-> <<payload>>]

\* mutant: the accounts are written back whatever the result
Committed_Always(result) == TRUE

\* the accounts an instruction changed are written back when it returns Ok;
\* an Err fails the transaction and every change made in it is discarded
Committed(result) == result = "Ok"

Execute(key, multisig, wormhole_program, wormhole_bridge, wormhole_fee_collector, emitter, squads_approved, post_ok) ==
    LET acc == ExecuteAccounts(key, multisig, wormhole_program, wormhole_bridge,
                               wormhole_fee_collector, emitter)
        loaded == IF key \in DOMAIN proposals THEN Some(key) ELSE None
    IN  IF acc # "Ok"
        THEN /\ last' = Call("execute", None, None, loaded, TRUE, TRUE, acc, <<>>, None)
             /\ UNCHANGED <<config, proposals, clock, encoded, inflight>>
        ELSE LET out == ExecuteHandler(config, proposals[key], key,
                                       squads_approved, post_ok, clock)
             IN  /\ config' = IF Committed(out.result) THEN out.config ELSE config
                 /\ proposals' = IF Committed(out.result)
                                 THEN [proposals EXCEPT ![key] = out.proposal]
                                 ELSE proposals
                 /\ last' = Call("execute", None, None, loaded, squads_approved, post_ok,
                                 out.result,
                                 IF Committed(out.result) THEN out.posted ELSE <<>>,
                                 Some([wormhole_program |-> wormhole_program,
                                       wormhole_bridge |-> wormhole_bridge,
                                       wormhole_fee_collector |-> wormhole_fee_collector,
                                       emitter |-> emitter]))
                 /\ UNCHANGED <<clock, encoded, inflight>>

\* ------------------------------------------- execute_proposal, step by step
\* The handler of one transaction between its two cross-program calls, with
\* another transaction under way.  A transaction holds the accounts it
\* declares `mut` write-locked from its start to its end.

\* mutant: config is not declared `mut` and is not write-locked
ConfigLocked_ReadOnly(t) == FALSE

\* config is write-locked by a transaction other than t
ConfigLocked(t) == \E u \in Txs \ {t} : inflight[u].pc # "idle"

\* the proposal at key is write-locked by a transaction other than t
ProposalLocked(t, key) ==
    \E u \in Txs \ {t} : inflight[u].pc # "idle" /\ inflight[u].key = key

\* the transaction starts: the accounts are locked, loaded and validated,
\* and the handler reads the clock
ExecuteBegin(t, key, accounts) ==
    /\ inflight[t].pc = "idle"
    /\ ~ConfigLocked(t)
    /\ ~ProposalLocked(t, key)
    /\ ExecuteAccounts(key, key[1], accounts.wormhole_program,
                       accounts.wormhole_bridge, accounts.wormhole_fee_collector,
                       accounts.emitter) = "Ok"
    /\ inflight' = [inflight EXCEPT ![t] =
                       [pc |-> "approval", key |-> key, accounts |-> accounts,
                        config |-> config, proposal |-> proposals[key],
                        now |-> clock, squads_approved |-> TRUE,
                        post_ok |-> TRUE, result |-> "Ok", posted |-> <<>>]]
    /\ UNCHANGED <<config, proposals, clock, last, encoded>>

\* lines 88-103: the approval is asked for, then the counter is incremented
ExecuteApproval(t, squads_approved) ==
    LET x == inflight[t] IN
    /\ x.pc = "approval"
    /\ inflight' = [inflight EXCEPT ![t] =
          IF is_proposal_approved(x.config.wormhole_program, x.proposal.multisig,
                                  squads_approved)
          THEN [x EXCEPT !.pc = "post",
                         !.squads_approved = squads_approved,
                         !.config = IncrementSequence(x.config)]
          ELSE [x EXCEPT !.pc = "end",
                         !.squads_approved = squads_approved,
                         !.result = "ProposalNotApproved"]]
    /\ UNCHANGED <<config, proposals, clock, last, encoded>>

\* lines 106-140: the payload is built and posted, then the proposal is marked
ExecutePost(t, post_ok) ==
    LET x == inflight[t]
        payload == create_transaction_payload(ProposalKeyBytes(x.key),
                       x.proposal.target_chain, x.proposal.target_address,
                       x.proposal.call_data, x.proposal.gas_limit,
                       x.config.sequence, x.now)
        posting == post_wormhole_message(payload, post_ok)
    IN
    /\ x.pc = "post"
    /\ inflight' = [inflight EXCEPT ![t] =
          IF posting = "Ok"
          THEN [x EXCEPT !.pc = "end",
                         !.post_ok = post_ok,
                         !.proposal = MarkExecuted(x.proposal, x.config.sequence, x.now),
                         !.posted = <<payload>>]
          ELSE [x EXCEPT !.pc = "end",
                         !.post_ok = post_ok,
                         !.result = posting]]
    /\ UNCHANGED <<config, proposals, clock, last, encoded>>

\* the transaction ends: the accounts are written back or discarded, and
\* the locks are released
ExecuteEnd(t) ==
    LET x == inflight[t] IN
    /\ x.pc = "end"
    /\ config' = IF Committed(x.result) THEN x.config ELSE config
    /\ proposals' = IF Committed(x.result)
                    THEN [proposals EXCEPT ![x.key] = x.proposal]
                    ELSE proposals
    /\ last' = Call("execute", None, None, Some(x.key), x.squads_approved,
                    x.post_ok, x.result,
                    IF Committed(x.result) THEN x.posted ELSE <<>>,
                    Some(x.accounts))
    /\ inflight' = [inflight EXCEPT ![t] = Idle]
    /\ UNCHANGED <<clock, encoded>>

\* ------------------------------------------------------------------- clock
Tick ==
    /\ clock < MaxTime
    /\ clock' = clock + 1
    /\ last' = Call("tick", None, None, None, TRUE, TRUE, "Ok", <<>>, None)
    /\ UNCHANGED <<config, proposals, encoded, inflight>>

\* ------------------------------------------------------------ specification
Init ==
    /\ config = NoConfig
    /\ proposals = <<>>
    /\ clock = 0
    /\ last = Call("none", None, None, None, TRUE, TRUE, "Ok", <<>>, None)
    /\ encoded = [input |-> None, payload |-> None]
    /\ inflight = [t \in Txs |-> Idle]

InitializeStep ==
    \E payer \in InitializePayers, multisig \in Pubkeys, routing \in RoutingInputs :
        Initialize(payer, multisig, routing)

ProposeStep ==
    \E payer \in Pubkeys, multisig \in Pubkeys, idx \in TxIndices :
        \E intent \in IntentInputs(idx) :
            Propose(payer, multisig, idx, intent)

ExecuteStep ==
    \E i \in ExecuteInputs :
        Execute(i.key, i.multisig, i.accounts.wormhole_program,
                i.accounts.wormhole_bridge, i.accounts.wormhole_fee_collector,
                i.accounts.emitter, i.squads_approved, i.post_ok)

Next == InitializeStep \/ ProposeStep \/ ExecuteStep \/ Tick

Spec == Init /\ [][Next]_vars

\* submission at the size limit: propose_transaction with call_data of
\* MAX_CALL_DATA_SIZE and MAX_CALL_DATA_SIZE + 1 bytes, at one index
ProposeBoundaryStep ==
    \E payer \in Pubkeys, multisig \in Pubkeys, idx \in BoundaryIndices :
        \E intent \in BoundaryIntents :
            Propose(payer, multisig, idx, intent)

NextBoundary == InitializeStep \/ ProposeBoundaryStep \/ ExecuteStep \/ Tick

SpecBoundary == Init /\ [][NextBoundary]_vars

\* execute_proposal on the proposal at key, called again with the configured
\* accounts at a time when Squads holds the proposal approved and the bridge
\* accepts the message
ExecuteRetry(key) ==
    \E a \in GoodAccountInputs :
        Execute(key, key[1], a.wormhole_program, a.wormhole_bridge,
                a.wormhole_fee_collector, a.emitter, TRUE, TRUE)

\* every proposal's execute_proposal keeps being retried
RetryFairness == \A key \in ProposalKeys : WF_vars(ExecuteRetry(key))

\* execute_proposal with the multisig and accounts that pass validation,
\* whatever Squads and the bridge answer
ExecuteAttemptStep ==
    \E key \in ProposalKeys, a \in GoodAccountInputs :
        \E squads_approved \in BOOLEAN, post_ok \in BOOLEAN :
            Execute(key, key[1], a.wormhole_program, a.wormhole_bridge,
                    a.wormhole_fee_collector, a.emitter, squads_approved, post_ok)

\* the instructions at one time of the clock (no instruction's result
\* depends on the clock)
NextRetry == InitializeStep \/ ProposeStep \/ ExecuteAttemptStep

SpecRetry == Init /\ [][NextRetry]_vars /\ RetryFairness

\* execute_proposal step by step, in two transactions at the same time.
\* initialize and propose_transaction lock config too (they create or read
\* it) and run when no execute_proposal is under way.
NoneInFlight == \A t \in Txs : inflight[t].pc = "idle"

ExecuteBeginStep ==
    \E t \in Txs, key \in ProposalKeys, accounts \in GoodAccountInputs :
        ExecuteBegin(t, key, accounts)

ExecuteApprovalStep ==
    \E t \in Txs, squads_approved \in BOOLEAN : ExecuteApproval(t, squads_approved)

ExecutePostStep ==
    \E t \in Txs, post_ok \in BOOLEAN : ExecutePost(t, post_ok)

ExecuteEndStep == \E t \in Txs : ExecuteEnd(t)

NextConcurrent ==
    \/ NoneInFlight /\ InitializeStep
    \/ NoneInFlight /\ ProposeStep
    \/ ExecuteBeginStep
    \/ ExecuteApprovalStep
    \/ ExecutePostStep
    \/ ExecuteEndStep
    \/ Tick

SpecConcurrent == Init /\ [][NextConcurrent]_vars

\* create_transaction_payload alone, on each of CodecInputs
InitCodec ==
    /\ config = NoConfig
    /\ proposals = <<>>
    /\ clock = 0
    /\ last = Call("none", None, None, None, TRUE, TRUE, "Ok", <<>>, None)
    /\ encoded \in {[input |-> Some(i), payload |-> None] : i \in CodecInputs}
    /\ inflight = [t \in Txs |-> Idle]

NextCodec == Encode

SpecCodec == InitCodec /\ [][NextCodec]_vars

TypeOK ==
    /\ clock \in Times
    /\ config.initialized \in BOOLEAN
    /\ \A k \in DOMAIN proposals : proposals[k].status \in ProposalStatus

\* ------------------------------------------------------------------ claims
ExecutedKeys == {k \in DOMAIN proposals : proposals[k].status = Executed}
PendingKeys == {k \in DOMAIN proposals : proposals[k].status = Pending}

\* the proposals this step turns Executed
NewlyExecuted ==
    {k \in DOMAIN proposals' :
        /\ proposals'[k].status = Executed
        /\ k \notin ExecutedKeys}

\* the proposals this step creates
NewlyCreated == DOMAIN proposals' \ DOMAIN proposals

\* some execute_proposal on k, as things stand, returns Ok
CanExecute(k) ==
    \E i \in ExecuteInputs :
        /\ i.key = k
        /\ ExecuteAccounts(i.key, i.multisig, i.accounts.wormhole_program,
                           i.accounts.wormhole_bridge,
                           i.accounts.wormhole_fee_collector,
                           i.accounts.emitter) = "Ok"
        /\ ExecuteHandler(config, proposals[k], k, i.squads_approved, i.post_ok,
                          clock).result = "Ok"

\* C1: an execute_proposal on a proposal that is already Executed fails with
\* ProposalNotPending and changes neither the proposals nor the config (so
\* at most one execute_proposal on a proposal succeeds).
C1_ExecutedIsFinal ==
    [][\A k \in ExecutedKeys :
          (last'.op = "execute" /\ last'.key = Some(k)) =>
              /\ last'.result = "ProposalNotPending"
              /\ proposals' = proposals
              /\ config' = config]_vars

C1_Witness ==
    /\ last.op = "execute"
    /\ last.result = "ProposalNotPending"
    /\ last.key # None
    /\ last.key[1] \in ExecutedKeys

C2_NoDuplicateRefs ==
    \A j \in ExecutedKeys : \A k \in ExecutedKeys :
        j # k => proposals[j].wormhole_sequence # proposals[k].wormhole_sequence

\* C2: the wormhole_sequence a successful execute_proposal records is greater
\* than every wormhole_sequence recorded before it, and no two Executed
\* proposals hold the same one.
C2_SequenceRefsIncrease ==
    /\ []C2_NoDuplicateRefs
    /\ [][\A k \in NewlyExecuted : \A j \in ExecutedKeys :
             proposals'[k].wormhole_sequence[1] > proposals[j].wormhole_sequence[1]]_vars

C2_Witness ==
    \E j \in ExecutedKeys : \E k \in ExecutedKeys :
        proposals[j].wormhole_sequence[1] < proposals[k].wormhole_sequence[1]

\* C3: a proposal turns Executed, and a message is posted for it, only in an
\* execute_proposal made while the Squads program holds that proposal
\* approved.
C3_ExecutedOnlyIfApproved ==
    [][/\ NewlyExecuted # {} => last'.squads_approved
       /\ last'.posted # <<>> => last'.squads_approved]_vars

\* C4: a proposal is created only by a propose_transaction that the
\* authorized multisig signed.
C4_OnlyProposerSubmits ==
    [][NewlyCreated # {} => last'.payer = Some(config.authorized_multisig)]_vars

\* C5: an execute_proposal on a Pending proposal that the Squads program does
\* not hold approved fails with ProposalNotApproved, posts nothing and
\* changes neither the proposals nor the config.
C5_UnapprovedExecuteFails ==
    [][(last'.op = "execute" /\ ~last'.squads_approved) =>
          /\ last'.result = "ProposalNotApproved"
          /\ last'.posted = <<>>
          /\ proposals' = proposals
          /\ config' = config]_vars

C6_StillPending ==
    (last.op = "execute" /\ ~last.post_ok) =>
        /\ last.result # "Ok"
        /\ last.key # None
        /\ proposals[last.key[1]].status = Pending
        /\ proposals[last.key[1]].wormhole_sequence = None
        /\ proposals[last.key[1]].executed_at = None
        /\ CanExecute(last.key[1])

\* C6: an execute_proposal whose message the bridge refuses fails and leaves
\* every proposal as it was: the one it names is Pending with no
\* wormhole_sequence and no executed_at, and an execute_proposal on it can
\* still succeed.
C6_FailedPostLeavesPending ==
    /\ []C6_StillPending
    /\ [][(last'.op = "execute" /\ ~last'.post_ok) => proposals' = proposals]_vars

C6_Witness ==
    /\ last.op = "execute"
    /\ ~last.post_ok
    /\ last.result = "WormholeError"
    /\ last.key[1] \in PendingKeys

\* C7 as claimed: after an execute_proposal whose message the bridge refuses,
\* config.sequence is one greater than before it.
C7_FailedPostKeepsIncrement ==
    [][(last'.op = "execute" /\ ~last'.post_ok /\ last'.result # "Ok") =>
          config'.sequence = config.sequence + 1]_vars

\* C7 as amended: an execute_proposal whose message the bridge refuses
\* leaves the config, config.sequence included, as it was; and a successful
\* execute_proposal records the wormhole_sequence that follows the
\* config.sequence it found, so no value is skipped.
C7_FailedPostDiscardsIncrement ==
    [][/\ (last'.op = "execute" /\ ~last'.post_ok) => config' = config
       /\ \A k \in NewlyExecuted :
             proposals'[k].wormhole_sequence = Some(config.sequence + 1)]_vars

C7_Witness ==
    /\ last.op = "execute"
    /\ last.result = "WormholeError"
    /\ ExecutedKeys # {}

\* C8: config.sequence is 0 after initialize, one greater after each
\* successful execute_proposal, unchanged by propose_transaction, and never
\* smaller after a step than before it.
C8_SequenceCounter ==
    [][/\ (last'.op = "initialize" /\ last'.result = "Ok") => config'.sequence = 0
       /\ (last'.op = "execute" /\ last'.result = "Ok") =>
             config'.sequence = config.sequence + 1
       /\ last'.op = "propose" => config' = config
       /\ config.initialized =>
             config'.initialized /\ config'.sequence >= config.sequence]_vars

C8_Witness ==
    /\ last.op = "execute"
    /\ last.result = "Ok"
    /\ config.sequence = 2

C9_OnlyPendingOrExecuted ==
    \A k \in DOMAIN proposals : proposals[k].status \in {Pending, Executed}

\* C9: in every step a proposal keeps its status or goes from Pending to
\* Executed, a new proposal is Pending, and no proposal is ever Failed or
\* Cancelled.
C9_StatusTransitions ==
    /\ []C9_OnlyPendingOrExecuted
    /\ [][/\ (\A k \in DOMAIN proposals :
                 /\ k \in DOMAIN proposals'
                 /\ \/ proposals'[k].status = proposals[k].status
                    \/ /\ proposals[k].status = Pending
                       /\ proposals'[k].status = Executed)
           /\ (\A n \in NewlyCreated : proposals'[n].status = Pending)]_vars

C9_Witness ==
    /\ ExecutedKeys # {}
    /\ PendingKeys # {}

C10_OwnedByAuthorized ==
    \A k \in DOMAIN proposals :
        /\ config.initialized
        /\ proposals[k].multisig = config.authorized_multisig

\* C10: a propose_transaction naming a multisig other than
\* config.authorized_multisig fails with UnauthorizedMultisig and creates
\* nothing; every proposal's multisig is config.authorized_multisig.
C10_UnauthorizedSubmitFails ==
    /\ []C10_OwnedByAuthorized
    /\ [][(/\ last'.op = "propose"
            /\ config.initialized
            /\ last'.multisig # Some(config.authorized_multisig)) =>
               /\ last'.result = "UnauthorizedMultisig"
               /\ proposals' = proposals]_vars

C10_Witness ==
    /\ last.op = "propose"
    /\ last.result = "UnauthorizedMultisig"
    /\ DOMAIN proposals # {}
C11_StoredWithinLimit ==
    \A k \in DOMAIN proposals : Len(proposals[k].call_data) <= MAX_CALL_DATA_SIZE

\* C11: a propose_transaction naming the authorized multisig at an unused
\* index succeeds with call_data of exactly MAX_CALL_DATA_SIZE bytes and
\* creates a Pending proposal, and fails with CallDataTooLarge, creating
\* nothing, with one byte more; no stored call_data exceeds the limit.
C11_CallDataBoundary ==
    /\ []C11_StoredWithinLimit
    /\ [][\A payer \in Pubkeys, multisig \in Pubkeys, idx \in BoundaryIndices :
             \A intent \in BoundaryIntents :
                 (/\ config.initialized
                  /\ multisig = config.authorized_multisig
                  /\ <<multisig, idx>> \notin DOMAIN proposals
                  /\ Propose(payer, multisig, idx, intent)) =>
                     /\ Len(intent.call_data) = MAX_CALL_DATA_SIZE =>
                           /\ last'.result = "Ok"
                           /\ NewlyCreated = {<<multisig, idx>>}
                           /\ proposals'[<<multisig, idx>>].status = Pending
                           /\ proposals'[<<multisig, idx>>].call_data = intent.call_data
                     /\ Len(intent.call_data) = MAX_CALL_DATA_SIZE + 1 =>
                           /\ last'.result = "CallDataTooLarge"
                           /\ proposals' = proposals]_vars

C11_Witness ==
    /\ last.op = "propose"
    /\ last.result = "Ok"
    /\ Len(proposals[last.key[1]].call_data) = MAX_CALL_DATA_SIZE

\* C12: a propose_transaction at an address that already holds a proposal,
\* Pending or Executed, fails with the account-in-use error of `init` and
\* leaves every proposal as it was.
C12_DuplicateRejected ==
    [][\A payer \in Pubkeys, multisig \in Pubkeys, idx \in BoundaryIndices :
          \A intent \in BoundaryIntents :
              (/\ <<multisig, idx>> \in DOMAIN proposals
               /\ Propose(payer, multisig, idx, intent)) =>
                  /\ last'.result = "AlreadyInUse"
                  /\ proposals' = proposals]_vars

C12_Witness ==
    /\ last.op = "propose"
    /\ last.result = "AlreadyInUse"
    /\ ExecutedKeys # {}
\* the number a sequence of bytes holds, least significant byte first
RECURSIVE ReadLittleEndian(_)
ReadLittleEndian(bytes) ==
    IF bytes = <<>> THEN 0
    ELSE Head(bytes) + 256 * ReadLittleEndian(Tail(bytes))

\* the fields read back from a payload at their offsets
PayloadFields(b) ==
    [version |-> b[1],
     message_type |-> b[2],
     sequence |-> ReadLittleEndian(SubSeq(b, 3, 10)),
     timestamp |-> ReadLittleEndian(SubSeq(b, 11, 18)),
     nonce |-> ReadLittleEndian(SubSeq(b, 19, 22)),
     proposal |-> SubSeq(b, 23, 54),
     target_chain |-> ReadLittleEndian(SubSeq(b, 55, 56)),
     target_address |-> SubSeq(b, 57, 88),
     gas_limit |-> ReadLittleEndian(SubSeq(b, 89, 96)),
     call_data_len |-> ReadLittleEndian(SubSeq(b, 97, 100)),
     call_data |-> SubSeq(b, 101, Len(b))]

\* C13: an execute_proposal that returns Ok with config.sequence = s leaves
\* config.sequence = s + 1, hands the bridge exactly one payload, the
\* encoding of the stored target_chain, target_address, call_data and
\* gas_limit with sequence s + 1 and the current time, and leaves the
\* proposal Executed with wormhole_sequence = s + 1 and executed_at = that
\* same time.
C13_SuccessfulExecute ==
    [][(last'.op = "execute" /\ last'.result = "Ok") =>
          LET k == last'.key[1]
              p == proposals[k]
              f == PayloadFields(last'.posted[1])
          IN  /\ config' = [config EXCEPT !.sequence = config.sequence + 1]
              /\ Len(last'.posted) = 1
              /\ last'.posted[1] =
                    create_transaction_payload(ProposalKeyBytes(k),
                        p.target_chain, p.target_address, p.call_data,
                        p.gas_limit, config.sequence + 1, clock)
              /\ f.sequence = config.sequence + 1
              /\ f.timestamp = clock
              /\ f.target_chain = p.target_chain
              /\ f.target_address = p.target_address
              /\ f.call_data = p.call_data
              /\ f.gas_limit = p.gas_limit
              /\ p.status = Pending
              /\ proposals' =
                    [proposals EXCEPT ![k] =
                        [p EXCEPT !.status = Executed,
                                  !.wormhole_sequence = Some(config.sequence + 1),
                                  !.executed_at = Some(clock)]]]_vars

C13_Witness ==
    /\ last.op = "execute"
    /\ last.result = "Ok"
    /\ config.sequence > 1
    /\ clock > 0
    /\ proposals[last.key[1]].wormhole_sequence = Some(config.sequence)

\* C15: once the config account exists every initialize fails, and no
\* instruction changes authority, authorized_multisig or the Wormhole
\* accounts of config, or brings sequence back to 0.
C15_InitializeOnce ==
    [][config.initialized =>
          /\ config'.initialized
          /\ config'.authority = config.authority
          /\ config'.authorized_multisig = config.authorized_multisig
          /\ config'.wormhole_program = config.wormhole_program
          /\ config'.wormhole_bridge = config.wormhole_bridge
          /\ config'.wormhole_fee_collector = config.wormhole_fee_collector
          /\ config'.emitter = config.emitter
          /\ config'.sequence >= config.sequence
          /\ last'.op = "initialize" =>
                /\ last'.result # "Ok"
                /\ config' = config]_vars

C15_Witness ==
    /\ last.op = "initialize"
    /\ last.result = "AlreadyInUse"
    /\ config.sequence > 0

\* the Wormhole accounts and emitter recorded by initialize
ConfiguredAccounts ==
    [wormhole_program |-> config.wormhole_program,
     wormhole_bridge |-> config.wormhole_bridge,
     wormhole_fee_collector |-> config.wormhole_fee_collector,
     emitter |-> config.emitter]

C16_HandlerRunsWithConfigured ==
    (last.op = "execute" /\ last.accounts # None) =>
        last.accounts = Some(ConfiguredAccounts)

\* C16: the execute handler runs only with the Wormhole program, bridge,
\* fee collector and emitter recorded in config; an execute_proposal handed
\* another of these fails while its accounts are validated, posts nothing
\* and leaves config.sequence and every proposal as they were.
C16_RoutingMismatchFails ==
    /\ []C16_HandlerRunsWithConfigured
    /\ [][(last'.op = "execute" /\ last'.accounts = None) =>
             /\ last'.result \notin {"Ok", "ProposalNotApproved", "WormholeError"}
             /\ last'.posted = <<>>
             /\ UNCHANGED <<config, proposals>>]_vars

C16_Witness ==
    /\ last.op = "execute"
    /\ last.result = "InvalidWormholeProgram"
    /\ last.accounts = None
    /\ last.key # None
    /\ last.key[1] \in PendingKeys
    /\ ExecutedKeys # {}

\* C19: a Pending proposal has neither wormhole_sequence nor executed_at, an
\* Executed proposal has both, and the wormhole_sequence of an Executed
\* proposal lies between 1 and config.sequence.
C19_StatusFields ==
    \A k \in DOMAIN proposals :
        LET p == proposals[k] IN
        /\ p.status = Pending <=> p.wormhole_sequence = None
        /\ p.status = Pending <=> p.executed_at = None
        /\ p.status = Executed <=>
              (p.wormhole_sequence # None /\ p.executed_at # None)
        /\ p.status = Executed =>
              /\ 1 <= p.wormhole_sequence[1]
              /\ p.wormhole_sequence[1] <= config.sequence

C19_Witness ==
    /\ PendingKeys # {}
    /\ ExecutedKeys # {}
    /\ \E k \in ExecutedKeys :
          /\ proposals[k].wormhole_sequence = Some(config.sequence)
          /\ proposals[k].executed_at = Some(clock)

\* C20: config.sequence is the number of Executed proposals, and their
\* wormhole_sequence values are exactly 1 .. config.sequence: no value is
\* skipped, failed execute_proposal calls included.
C20_NoSkippedSequence ==
    config.initialized =>
        /\ Cardinality(ExecutedKeys) = config.sequence
        /\ {proposals[k].wormhole_sequence[1] : k \in ExecutedKeys} =
              1 .. config.sequence

C20_Witness ==
    /\ last.op = "execute"
    /\ last.result = "WormholeError"
    /\ config.sequence > 0
    /\ PendingKeys # {}
Incremented == {t \in Txs : inflight[t].pc = "post" \/
                             (inflight[t].pc = "end" /\ inflight[t].result # "ProposalNotApproved")}

C17_DistinctSequences ==
    /\ \A t, u \in Incremented :
          t # u => inflight[t].config.sequence # inflight[u].config.sequence
    /\ \A k, j \in ExecutedKeys :
          k # j => proposals[k].wormhole_sequence # proposals[j].wormhole_sequence

\* C17: two execute_proposal transactions on different Pending proposals,
\* taken step by step between their cross-program calls, never hold the same
\* incremented sequence, never record the same wormhole_sequence, and the
\* one that ends later never records a lower wormhole_sequence than one
\* already recorded.
C17_ConcurrentExecutes ==
    /\ []C17_DistinctSequences
    /\ [][\A k \in NewlyExecuted : \A j \in ExecutedKeys :
             proposals'[k].wormhole_sequence[1] > proposals[j].wormhole_sequence[1]]_vars

C17_Witness ==
    /\ \E t \in Txs : inflight[t].pc = "post" /\ inflight[t].config.sequence = 2
    /\ ExecutedKeys # {}
    /\ last.op = "execute"
    /\ last.result = "Ok"
\* C18: whatever execute_proposal calls failed before, a Pending proposal
\* whose execute_proposal keeps being retried while Squads approves and the
\* bridge accepts is eventually Executed.
C18_RetryIsLive ==
    \A key \in ProposalKeys :
        (key \in PendingKeys) ~> (key \in ExecutedKeys)

C18_Witness ==
    /\ last.op = "execute"
    /\ last.result = "Ok"
    /\ last.post_ok
    /\ last.key[1] \in ExecutedKeys
    /\ PendingKeys # {}

\* the fields of a proposal that execute_proposal does not write
FrameFields(p) ==
    [multisig |-> p.multisig,
     transaction_index |-> p.transaction_index,
     target_chain |-> p.target_chain,
     target_address |-> p.target_address,
     call_data |-> p.call_data,
     gas_limit |-> p.gas_limit,
     created_at |-> p.created_at]

\* C21: an execute_proposal, whether it returns Ok or Err, creates and
\* removes no proposal, leaves every proposal other than the one it is handed
\* as it was, and of the one it is handed changes at most status,
\* wormhole_sequence and executed_at.
C21_ExecuteFrame ==
    [][last'.op = "execute" =>
          /\ DOMAIN proposals' = DOMAIN proposals
          /\ \A k \in DOMAIN proposals :
                /\ FrameFields(proposals'[k]) = FrameFields(proposals[k])
                /\ last'.key # Some(k) => proposals'[k] = proposals[k]]_vars

C21_Witness ==
    /\ last.op = "execute"
    /\ last.result = "Ok"
    /\ proposals[last.key[1]].created_at < clock
    /\ \E k \in DOMAIN proposals : k # last.key[1]
=============================================================================
